---- MODULE Spec2Model ----
(***************************************************************************)
(* The `download` language of pre-commit: install_environment provisions a *)
(* checksum-verified artifact into an environment directory and            *)
(* health_check re-verifies it against the health.srisum sidecar.          *)
(*                                                                         *)
(* Text is a sequence of lexemes.  A lexeme is either one character that   *)
(* some operation of the program splits on, strips or decodes ("/", "-",   *)
(* ":", " ", "\n", "=", a base64 digit) or a run of characters that no     *)
(* operation looks into ("linux", "sha256", "test.bat").  Bytes are        *)
(* naturals below 256.                                                     *)
(***************************************************************************)
EXTENDS Naturals, Sequences, FiniteSets, TLC

VARIABLES
    system,      \* platform.system() of the host
    machine,     \* platform.machine() of the host
    privileged,  \* the process ignores permission bits (root)
    dirExists,   \* the environment directory exists
    files,       \* the artifacts in the environment directory, by name
    srisum,      \* the sidecar health.srisum in the environment directory
    pc,          \* position of install_environment
    run,         \* locals of the install_environment call in progress
    fetched,     \* urlopen was called by the current or last install
    result,      \* how the last install_environment call ended
    hc,          \* what health_check returned, when it was the last operation
    op           \* the operation that took the last step

vars == <<system, machine, privileged, dirExists, files, srisum, pc, run,
          fetched, result, hc, op>>

fsvars == <<dirExists, files, srisum>>

-----------------------------------------------------------------------------
(* Bounds of the model.                                                    *)

\* longest remote payload, in bytes
MaxLen == 2

\* bytes asked of a source by one read (the code asks for 4096)
ChunkSize == 2

\* digest_size of the modelled hash algorithm, in bytes (sha256 has 32)
DigestSize == 1

-----------------------------------------------------------------------------
(* str methods.                                                            *)

NL == "\n"

SP == " "

Whitespace == {SP, NL, "\t"}

\* index of the first occurrence of lexeme c in s, 0 when there is none
RECURSIVE FindFrom(_, _, _)
FindFrom(s, c, i) ==
    IF i > Len(s) THEN 0
    ELSE IF s[i] = c THEN i
    ELSE FindFrom(s, c, i + 1)

Find(s, c) == FindFrom(s, c, 1)

\* s.split(c, 1)
Split1(s, c) ==
    LET i == Find(s, c)
    IN  IF i = 0 THEN <<s>>
        ELSE <<SubSeq(s, 1, i - 1), SubSeq(s, i + 1, Len(s))>>

RECURSIVE LStrip(_)
LStrip(s) ==
    IF s # <<>> /\ Head(s) \in Whitespace THEN LStrip(Tail(s)) ELSE s

RECURSIVE RStrip(_)
RStrip(s) ==
    IF s # <<>> /\ s[Len(s)] \in Whitespace
    THEN RStrip(SubSeq(s, 1, Len(s) - 1))
    ELSE s

\* a defect: only the left end is stripped, the line end stays
StripLeftOnly(s) == LStrip(s)

\* s.strip()
Strip(s) == RStrip(LStrip(s))

\* s.splitlines()
RECURSIVE SplitLines(_)
SplitLines(s) ==
    IF s = <<>> THEN <<>>
    ELSE LET i == Find(s, NL)
         IN  IF i = 0 THEN <<s>>
             ELSE <<SubSeq(s, 1, i - 1)>> \o SplitLines(SubSeq(s, i + 1, Len(s)))

\* the lines a text stream iterates over, each with its line end
RECURSIVE StreamLines(_)
StreamLines(s) ==
    IF s = <<>> THEN <<>>
    ELSE LET i == Find(s, NL)
         IN  IF i = 0 THEN <<s>>
             ELSE <<SubSeq(s, 1, i)>> \o StreamLines(SubSeq(s, i + 1, Len(s)))

-----------------------------------------------------------------------------
(* base64.standard_b64encode and standard_b64decode.                       *)

B64Alphabet ==
    << "A","B","C","D","E","F","G","H","I","J","K","L","M","N","O","P",
       "Q","R","S","T","U","V","W","X","Y","Z","a","b","c","d","e","f",
       "g","h","i","j","k","l","m","n","o","p","q","r","s","t","u","v",
       "w","x","y","z","0","1","2","3","4","5","6","7","8","9","+","/" >>

B64Digits == {B64Alphabet[i] : i \in 1..64}

B64Pad == "="

B64Values == [c \in B64Digits |-> (CHOOSE i \in 1..64 : B64Alphabet[i] = c) - 1]

B64Value(c) == B64Values[c]

B64Char(v) == B64Alphabet[v + 1]

RECURSIVE b64encode(_)
b64encode(bytes) ==
    IF bytes = <<>> THEN <<>>
    ELSE IF Len(bytes) = 1 THEN
        << B64Char(bytes[1] \div 4), B64Char((bytes[1] % 4) * 16),
           B64Pad, B64Pad >>
    ELSE IF Len(bytes) = 2 THEN
        << B64Char(bytes[1] \div 4),
           B64Char((bytes[1] % 4) * 16 + bytes[2] \div 16),
           B64Char((bytes[2] % 16) * 4), B64Pad >>
    ELSE
        << B64Char(bytes[1] \div 4),
           B64Char((bytes[1] % 4) * 16 + bytes[2] \div 16),
           B64Char((bytes[2] % 16) * 4 + bytes[3] \div 64),
           B64Char(bytes[3] % 64) >>
        \o b64encode(SubSeq(bytes, 4, Len(bytes)))

\* binascii.a2b_base64 without strict mode: characters outside the alphabet
\* are skipped, decoding stops at sufficient padding, and data that ends inside
\* a quad raises binascii.Error (a ValueError).
\*   quad: digits seen in the current quad; acc: their bits not yet emitted;
\*   pads: padding characters seen since the last digit.
RECURSIVE B64Scan(_, _, _, _, _)
B64Scan(s, quad, acc, pads, out) ==
    IF s = <<>> THEN [ok |-> quad = 0, bytes |-> out]
    ELSE LET c == Head(s) IN
         IF c = B64Pad THEN
             IF quad >= 2 /\ pads + 1 >= 4 - quad
             THEN [ok |-> TRUE, bytes |-> out]
             ELSE B64Scan(Tail(s), quad, acc, pads + 1, out)
         ELSE IF c \notin B64Digits THEN
             B64Scan(Tail(s), quad, acc, pads, out)
         ELSE LET v == B64Value(c) IN
             CASE quad = 0 -> B64Scan(Tail(s), 1, v, 0, out)
               [] quad = 1 -> B64Scan(Tail(s), 2, v % 16, 0,
                                      Append(out, acc * 4 + v \div 16))
               [] quad = 2 -> B64Scan(Tail(s), 3, v % 4, 0,
                                      Append(out, acc * 16 + v \div 4))
               [] quad = 3 -> B64Scan(Tail(s), 0, 0, 0,
                                      Append(out, acc * 64 + v))

b64decode(s) == B64Scan(s, 0, 0, 0, <<>>)

-----------------------------------------------------------------------------
(* hashlib.  One algorithm is available; its digest is DigestSize bytes    *)
(* and it is fed incrementally, as hashlib hashers are.                    *)

algorithms_available == {"sha256"}

RECURSIVE Pow256(_)
Pow256(n) == IF n = 0 THEN 1 ELSE 256 * Pow256(n - 1)

\* hashlib.new(algorithm)
hashlib_new == 0

\* hasher.update(buffer)
RECURSIVE hasher_update(_, _)
hasher_update(h, buffer) ==
    IF buffer = <<>> THEN h
    ELSE hasher_update((h * 33 + Head(buffer) + 1) % Pow256(DigestSize),
                       Tail(buffer))

\* hasher.digest()
RECURSIVE BigEndian(_, _)
BigEndian(h, n) ==
    IF n = 0 THEN <<>> ELSE Append(BigEndian(h \div 256, n - 1), h % 256)

hasher_digest(h) == BigEndian(h, DigestSize)

-----------------------------------------------------------------------------
(* class Platform.                                                         *)

OS == ("Linux" :> "linux") @@ ("Darwin" :> "darwin") @@
      ("Windows" :> "windows") @@ ("DragonFly" :> "dragonfly") @@
      ("FreeBSD" :> "freebsd")

CPU == ("aarch64" :> "arm64") @@ ("aarch64_be" :> "arm64be") @@
       ("arm" :> "arm") @@ ("i386" :> "386") @@ ("i686" :> "386") @@
       ("x86_64" :> "amd64") @@ ("AMD64" :> "amd64") @@ ("ppc" :> "ppc") @@
       ("ppc64" :> "ppc64") @@ ("ppc64le" :> "ppc64le")

Values(f) == {f[k] : k \in DOMAIN f}

\* Platform(value): ok is FALSE where __init__ raises ValueError
Platform(value) ==
    LET parts == Split1(value, "/") IN
    IF Len(parts) # 2 THEN [ok |-> FALSE, value |-> value, os |-> <<>>, cpu |-> <<>>]
    ELSE [ok    |-> /\ parts[1] \in {<<v>> : v \in Values(OS)}
                    /\ parts[2] \in {<<v>> : v \in Values(CPU)},
          value |-> value, os |-> parts[1], cpu |-> parts[2]]

\* Platform.__str__
PlatformStr(p) == p.os \o <<"/">> \o p.cpu

\* Platform.__eq__
PlatformEq(self, other) == other.os = self.os /\ other.cpu = self.cpu

\* Platform.host(): found is FALSE where the lookup in OS or CPU raises KeyError
PlatformHost(sys, mach) ==
    IF sys \in DOMAIN OS /\ mach \in DOMAIN CPU
    THEN [found |-> TRUE, platform |-> Platform(<<OS[sys], "/", CPU[mach]>>)]
    ELSE [found |-> FALSE, platform |-> Platform(<<>>)]

-----------------------------------------------------------------------------
(* class SRI and class ChecksumMismatchError.                              *)

\* SRI(value): ok is FALSE where __init__ raises ValueError
SRI(value) ==
    LET parts == Split1(value, "-") IN
    IF Len(parts) # 2
    THEN [ok |-> FALSE, value |-> value, algorithm |-> <<>>, checksum |-> <<>>]
    ELSE LET algorithm == parts[1]
             checksum  == parts[2]
             decoded   == b64decode(checksum)
         IN  [ok |-> /\ algorithm \in {<<a>> : a \in algorithms_available}
                     /\ decoded.ok
                     /\ b64encode(decoded.bytes) = checksum
                     /\ Len(decoded.bytes) = DigestSize,
              value |-> value, algorithm |-> algorithm, checksum |-> checksum]

\* ChecksumMismatchError.__str__
ChecksumMismatchStr(expected, actual) ==
    <<"checksum mismatch", ":", NL>>
    \o <<SP, "-", SP, "expected", ":", SP>> \o expected \o <<NL>>
    \o <<SP, "-", SP, "actual", SP, SP, ":", SP>> \o actual \o <<NL>>

\* io.read(chunk) on a source that delivers all it has: the buffer read
ReadFull(io, chunk) ==
    SubSeq(io, 1, IF Len(io) < chunk THEN Len(io) ELSE chunk)

\* the loop of SRI.check over a source read to its end: the hasher afterwards
RECURSIVE CheckLoop(_, _)
CheckLoop(hasher, io) ==
    IF ReadFull(io, ChunkSize) = <<>> THEN hasher
    ELSE LET buffer == ReadFull(io, ChunkSize)
         IN  CheckLoop(hasher_update(hasher, buffer),
                       SubSeq(io, Len(buffer) + 1, Len(io)))

\* a defect: the error is built with its two digests exchanged
CheckEndSwapped(sri, hasher) ==
    LET digest == b64encode(hasher_digest(hasher))
    IN  [mismatch |-> digest # sri.checksum,
         expected |-> digest,
         actual   |-> sri.checksum]

\* the end of SRI.check, after the loop: the digest and its comparison
CheckEnd(sri, hasher) ==
    LET digest == b64encode(hasher_digest(hasher))
    IN  [mismatch |-> digest # sri.checksum,
         expected |-> sri.checksum,
         actual   |-> digest]

-----------------------------------------------------------------------------
(* class URI and class Metadata.                                           *)

URIDelimiters == {"/", ":", "?", "#"}

\* urlparse(value): the scheme and the netloc
urlparse(value) ==
    LET i       == Find(value, ":")
        scheme  == IF i > 1 /\ \A k \in 1..(i - 1) : value[k] \notin URIDelimiters
                   THEN SubSeq(value, 1, i - 1) ELSE <<>>
        rest    == IF scheme # <<>> THEN SubSeq(value, i + 1, Len(value)) ELSE value
        slashes == Len(rest) >= 2 /\ rest[1] = "/" /\ rest[2] = "/"
        after   == SubSeq(rest, 3, Len(rest))
        ends    == {k \in 1..Len(after) : after[k] \in {"/", "?", "#"}}
        stop    == IF ends = {} THEN Len(after) + 1
                   ELSE CHOOSE k \in ends : \A j \in ends : k <= j
    IN  [scheme |-> scheme,
         netloc |-> IF slashes THEN SubSeq(after, 1, stop - 1) ELSE <<>>]

\* URI(value): ok is FALSE where __post_init__ raises ValueError
URI(value) ==
    LET url == urlparse(value)
    IN  [ok |-> url.scheme # <<>> /\ url.netloc # <<>>, value |-> value]

\* Metadata.parts: ok is FALSE where the unpacking raises ValueError
MetadataParts(value) ==
    LET lines == SplitLines(value)
    IN  [ok |-> Len(lines) = 4, lines |-> lines]

\* Metadata.platform
MetadataPlatform(value) ==
    LET parts == MetadataParts(value)
    IN  IF parts.ok THEN Platform(parts.lines[1]) ELSE Platform(<<>>)

\* Metadata.sri
MetadataSri(value) == SRI(MetadataParts(value).lines[2])

\* Metadata.uri
MetadataUri(value) == URI(MetadataParts(value).lines[3])

\* Metadata.filename
MetadataFilename(value) == MetadataParts(value).lines[4]

-----------------------------------------------------------------------------
(* The file system: open() and chmod() on one file.                        *)

S_IRUSR == "S_IRUSR"

S_IWUSR == "S_IWUSR"

S_IXUSR == "S_IXUSR"

\* the mode open() creates a file with: 0o666 less a umask of 0o022
CreateMode == {S_IRUSR, S_IWUSR, "S_IRGRP", "S_IROTH"}

NoFile == [exists |-> FALSE, data |-> <<>>, mode |-> {}]

\* open(mode='w' or 'wb'): err names the OSError raised, "" when none is;
\* file is the file once open() is over
OpenW(f, root) ==
    IF ~f.exists THEN [err |-> "", file |-> [exists |-> TRUE, data |-> <<>>, mode |-> CreateMode]]
    ELSE IF S_IWUSR \in f.mode \/ root THEN [err |-> "", file |-> [f EXCEPT !.data = <<>>]]
    ELSE [err |-> "PermissionError", file |-> f]

\* open(mode='r' or 'rb')
OpenR(f, root) ==
    IF ~f.exists THEN [err |-> "FileNotFoundError", file |-> f]
    ELSE IF S_IRUSR \in f.mode \/ root THEN [err |-> "", file |-> f]
    ELSE [err |-> "PermissionError", file |-> f]

\* fp.write(buffer)
Write(f, buffer) == [f EXCEPT !.data = @ \o buffer]

\* chmod(filename, mode)
Chmod(f, mode) == [f EXCEPT !.mode = mode]

-----------------------------------------------------------------------------
(* What the callers and the network supply.                                *)

\* Contents differ by their length here; SRI.check is checked on sources of
\* several byte values under CheckSpec.
PayloadBytes == {7}

\* the bodies a server may answer with
Bodies == UNION {[1..n -> PayloadBytes] : n \in 0..MaxLen}

shellscript == <<7, 7>>

batch_script == <<7>>

\* the descriptor of a payload, as a hook author computes it
SriOf(body) ==
    <<"sha256", "-">> \o b64encode(hasher_digest(CheckLoop(hashlib_new, body)))

Entry(platform, sri, uri, filename) ==
    platform \o <<NL>> \o sri \o <<NL>> \o uri \o <<NL>> \o filename

GoodUri == <<"http", ":", "/", "/", "127.0.0.1:5555">>

FileNames == {<<"test.bat">>, <<"out.bin">>}

linux_amd64 ==
    Entry(<<"linux", "/", "amd64">>, SriOf(shellscript), GoodUri, <<"test.bat">>)

linux_amd64_other ==
    Entry(<<"linux", "/", "amd64">>, SriOf(batch_script), GoodUri, <<"out.bin">>)

windows_amd64 ==
    Entry(<<"windows", "/", "amd64">>, SriOf(batch_script), GoodUri, <<"test.bat">>)

linux_arm64 ==
    Entry(<<"linux", "/", "arm64">>, SriOf(batch_script), GoodUri, <<"test.bat">>)

\* a checksum one byte too long, as in deps_invalid_length
invalid_length ==
    Entry(<<"linux", "/", "amd64">>,
          <<"sha256", "-">>
          \o b64encode(hasher_digest(CheckLoop(hashlib_new, shellscript)) \o <<0>>),
          GoodUri, <<"test.bat">>)

\* a checksum that is not base64, for another platform
bad_base64 ==
    Entry(<<"windows", "/", "amd64">>, <<"sha256", "-", "Q", "Q", "=">>,
          GoodUri, <<"test.bat">>)

\* a locator without a scheme
bad_uri ==
    Entry(<<"linux", "/", "amd64">>, SriOf(shellscript),
          <<"127.0.0.1:5555", "/", "f">>, <<"test.bat">>)

\* a CPU that is no value of the allow-list
bad_cpu ==
    Entry(<<"linux", "/", "x86_64">>, SriOf(shellscript), GoodUri, <<"test.bat">>)

three_lines ==
    <<"linux", "/", "amd64">> \o <<NL>> \o SriOf(shellscript) \o <<NL>> \o GoodUri

\* the additional_dependencies the callers pass
Manifests ==
    { <<>>,
      <<linux_amd64, windows_amd64>>,
      <<linux_amd64, linux_amd64_other>>,
      <<linux_amd64_other, linux_amd64>>,
      <<linux_arm64, linux_amd64_other>>,
      <<windows_amd64>>,
      <<invalid_length, windows_amd64>>,
      <<bad_base64, linux_amd64>>,
      <<bad_base64>>,
      <<bad_uri>>,
      <<bad_cpu, linux_amd64>>,
      <<linux_amd64, bad_cpu>>,
      <<three_lines>>,
      <<windows_amd64, three_lines>> }

\* (platform.system(), platform.machine()) of the hosts
Hosts == {<<"Linux", "x86_64">>, <<"Linux", "aarch64">>, <<"SunOS", "sun4v">>}

-----------------------------------------------------------------------------
(* health_check.                                                           *)

File(fs, name) == IF name \in DOMAIN fs THEN fs[name] ELSE NoFile

ReinstallHint == <<"Please reinstall the Download environment">>

\* a defect: the sidecar is opened for writing, which truncates it
OpenSrisumTruncating(f, root) == OpenW(f, root)

\* the opening of the sidecar by health_check
OpenSrisum(f, root) == OpenR(f, root)

\* the body of health_check's loop over the lines of the sidecar, from line i
\* on: what health_check returns or raises, and the artifacts afterwards
RECURSIVE HealthLines(_, _, _, _)
HealthLines(lines, i, fs, root) ==
    IF i > Len(lines) THEN [kind |-> "None", exc |-> "", text |-> <<>>, files |-> fs]
    ELSE
    LET parts    == Split1(Strip(lines[i]), SP)
        sri_str  == Strip(parts[1])
        filepath == Strip(parts[2])
        sri      == SRI(sri_str)
        fp       == OpenR(File(fs, filepath), root)
        after    == IF filepath \in DOMAIN fs
                    THEN [fs EXCEPT ![filepath] = fp.file] ELSE fs
        e        == CheckEnd(sri, CheckLoop(hashlib_new, fp.file.data))
    IN  IF Len(parts) # 2
        THEN [kind |-> "raise", exc |-> "ValueError", text |-> <<>>, files |-> fs]
        ELSE IF ~sri.ok
        THEN [kind |-> "raise", exc |-> "ValueError", text |-> <<>>, files |-> fs]
        ELSE IF fp.err # ""
        THEN [kind |-> "raise", exc |-> fp.err, text |-> <<>>, files |-> after]
        ELSE IF e.mismatch
        THEN [kind |-> "str", exc |-> "",
              text |-> filepath \o <<SP>>
                       \o ChecksumMismatchStr(e.expected, e.actual)
                       \o ReinstallHint,
              files |-> after]
        ELSE HealthLines(lines, i + 1, after, root)

\* health_check(prefix, version): what it returns or raises, and the sidecar
\* and the artifacts afterwards
HealthCheck(sidecar, fs, root) ==
    LET stream == OpenSrisum(sidecar, root)
        r      == HealthLines(StreamLines(stream.file.data), 1, fs, root)
    IN  IF stream.err # ""
        THEN [kind |-> "raise", exc |-> stream.err, text |-> <<>>,
              srisum |-> stream.file, files |-> fs]
        ELSE [kind |-> r.kind, exc |-> r.exc, text |-> r.text,
              srisum |-> stream.file, files |-> r.files]

\* nothing of an install is in the directory
EmptyDirectory(sidecar, fs) ==
    ~sidecar.exists /\ \A f \in DOMAIN fs : ~fs[f].exists

-----------------------------------------------------------------------------
(* install_environment and download.                                       *)

\* a defect: the loop does not stop at a match, the last match wins
RECURSIVE SelectLast(_, _, _)
SelectLast(host, deps, i) ==
    IF i > Len(deps) THEN [type |-> "KeyError", idx |-> 0, raisedBy |-> "install_environment"]
    ELSE IF ~MetadataParts(deps[i]).ok
         THEN [type |-> "ValueError", idx |-> i, raisedBy |-> "Metadata.parts"]
    ELSE IF ~MetadataPlatform(deps[i]).ok
         THEN [type |-> "ValueError", idx |-> i, raisedBy |-> "Platform"]
    ELSE IF /\ PlatformEq(host, MetadataPlatform(deps[i]))
            /\ SelectLast(host, deps, i + 1).type # "match"
         THEN [type |-> "match", idx |-> i, raisedBy |-> ""]
    ELSE SelectLast(host, deps, i + 1)

\* a defect: every entry is validated in full before its platform is compared
RECURSIVE SelectEager(_, _, _)
SelectEager(host, deps, i) ==
    IF i > Len(deps) THEN [type |-> "KeyError", idx |-> 0, raisedBy |-> "install_environment"]
    ELSE IF ~MetadataParts(deps[i]).ok
         THEN [type |-> "ValueError", idx |-> i, raisedBy |-> "Metadata.parts"]
    ELSE IF ~MetadataPlatform(deps[i]).ok
         THEN [type |-> "ValueError", idx |-> i, raisedBy |-> "Platform"]
    ELSE IF ~MetadataSri(deps[i]).ok
         THEN [type |-> "ValueError", idx |-> i, raisedBy |-> "SRI"]
    ELSE IF ~MetadataUri(deps[i]).ok
         THEN [type |-> "ValueError", idx |-> i, raisedBy |-> "URI"]
    ELSE IF PlatformEq(host, MetadataPlatform(deps[i]))
         THEN [type |-> "match", idx |-> i, raisedBy |-> ""]
    ELSE SelectEager(host, deps, i + 1)

\* the loop of install_environment up to its first match
RECURSIVE Select(_, _, _)
Select(host, deps, i) ==
    IF i > Len(deps) THEN [type |-> "KeyError", idx |-> 0, raisedBy |-> "install_environment"]
    ELSE IF ~MetadataParts(deps[i]).ok
         THEN [type |-> "ValueError", idx |-> i, raisedBy |-> "Metadata.parts"]
    ELSE IF ~MetadataPlatform(deps[i]).ok
         THEN [type |-> "ValueError", idx |-> i, raisedBy |-> "Platform"]
    ELSE IF PlatformEq(host, MetadataPlatform(deps[i]))
         THEN [type |-> "match", idx |-> i, raisedBy |-> ""]
    ELSE Select(host, deps, i + 1)

\* install_environment from its first line to the call of download, disk and
\* network left aside: the exception raised on the way (type "" when none
\* is), whether envdir.mkdir was reached, and the arguments of download
Resolve(sys, mach, deps) ==
    LET host == PlatformHost(sys, mach)
        sel  == Select(host.platform, deps, 1)
        m    == deps[sel.idx]
        none == [type |-> "", raisedBy |-> "", idx |-> 0, mkdir |-> FALSE,
                 host |-> <<>>, filename |-> <<>>, uri |-> <<>>, sri |-> SRI(<<>>)]
    IN  IF ~host.found
        THEN [none EXCEPT !.type = "KeyError", !.raisedBy = "Platform.host"]
        ELSE IF sel.type # "match"
        THEN [none EXCEPT !.type = sel.type, !.raisedBy = sel.raisedBy,
                          !.idx = sel.idx, !.host = PlatformStr(host.platform)]
        ELSE IF ~MetadataUri(m).ok
        THEN [none EXCEPT !.type = "ValueError", !.raisedBy = "URI",
                          !.idx = sel.idx, !.mkdir = TRUE]
        ELSE IF ~MetadataSri(m).ok
        THEN [none EXCEPT !.type = "ValueError", !.raisedBy = "SRI",
                          !.idx = sel.idx, !.mkdir = TRUE]
        ELSE [none EXCEPT !.idx = sel.idx, !.mkdir = TRUE,
                          !.filename = MetadataFilename(m),
                          !.uri = MetadataUri(m).value,
                          !.sri = MetadataSri(m)]

\* Resolve on every host and manifest of the model, evaluated once
Resolved == [h \in Hosts |-> [deps \in Manifests |-> Resolve(h[1], h[2], deps)]]

\* a defect: the record is written with one space between its two fields
SrisumLineOneSpace(sri, filename) == sri.value \o <<SP>> \o filename \o <<NL>>

\* f'{m.sri}  {filename}\n'
SrisumLine(sri, filename) == sri.value \o <<SP, SP>> \o filename \o <<NL>>

NoRun == [additional_dependencies |-> <<>>, idx |-> 0, filename |-> <<>>,
          uri |-> <<>>, sri |-> SRI(<<>>), body |-> <<>>, ws |-> <<>>,
          hasher |-> hashlib_new, fresh |-> FALSE, completed |-> FALSE]

NoResult == [type |-> "none", raisedBy |-> ""]

NoCheck == [kind |-> "unknown", exc |-> "", text |-> <<>>, again |-> FALSE]

\* what install_environment does once its loop is over, r being the outcome of
\* the loop and of the evaluation of download's arguments, fp that of
\* filename.open('wb').  run keeps the arguments and the locals of the call;
\* its fresh and completed record what the directory held when the call began:
\* nothing, or the sidecar and the artifact, still read-and-execute only, of a
\* call that returned.
Call(deps, body, net, r, fp) ==
    LET ws == r.type = "" /\ net = "up"
        ok == ws /\ fp.err = ""
    IN  /\ dirExists' = (dirExists \/ r.mkdir)
        /\ fetched' = (r.type = "")
        /\ files' = IF ws THEN [files EXCEPT ![r.filename] = fp.file] ELSE files
        /\ pc' = IF ok THEN "streaming" ELSE "idle"
        /\ run' = IF ws
                  THEN [additional_dependencies |-> deps, idx |-> r.idx,
                        filename |-> r.filename, uri |-> r.uri, sri |-> r.sri,
                        body |-> body, ws |-> IF ok THEN body ELSE <<>>,
                        hasher |-> hashlib_new,
                        fresh |-> EmptyDirectory(srisum, files),
                        completed |-> /\ result.type = "return"
                                      /\ srisum.exists
                                      /\ files[run.filename].mode
                                           = {S_IRUSR, S_IXUSR}]
                  ELSE [NoRun EXCEPT !.additional_dependencies = deps]
        /\ result' =
             IF ok THEN [type |-> "running", raisedBy |-> ""]
             ELSE IF r.raisedBy = "install_environment"
             THEN [type |-> r.type, raisedBy |-> r.raisedBy, host |-> r.host,
                   additional_dependencies |-> deps]
             ELSE IF r.type # "" THEN [type |-> r.type, raisedBy |-> r.raisedBy]
             ELSE IF net = "unreachable"
             THEN [type |-> "URLError", raisedBy |-> "urlopen"]
             ELSE [type |-> fp.err, raisedBy |-> "open"]

\* install_environment(prefix, version, deps) up to the first read of the
\* download; the server answers with body, or the network is unreachable
install_environment(deps, body, net) ==
    /\ pc = "idle"
    /\ net = "unreachable" => body = <<>>
    /\ LET r == Resolved[<<system, machine>>][deps]
       IN  Call(deps, body, net, r, OpenW(File(files, r.filename), privileged))
    /\ op' = "install_environment"
    /\ hc' = NoCheck
    /\ UNCHANGED <<system, machine, privileged, srisum>>

\* one round of the loop of SRI.check inside download: a buffer of n bytes is
\* read from the response, hashed, yielded and written to the destination
check_yield(n) ==
    /\ pc = "streaming"
    /\ n \in 1..ChunkSize
    /\ n <= Len(run.ws)
    /\ LET buffer == SubSeq(run.ws, 1, n)
       IN  /\ run' = [run EXCEPT !.ws = SubSeq(@, n + 1, Len(@)),
                                 !.hasher = hasher_update(@, buffer)]
           /\ files' = [files EXCEPT ![run.filename] = Write(@, buffer)]
    /\ op' = "check_yield"
    /\ UNCHANGED <<system, machine, privileged, dirExists, srisum, pc, fetched,
                   result, hc>>

\* the read that returns nothing: the loop of SRI.check ends, the digest is
\* compared, and download closes the destination
check_end ==
    /\ pc = "streaming"
    /\ run.ws = <<>>
    /\ LET e == CheckEnd(run.sri, run.hasher)
       IN  IF e.mismatch
           THEN /\ pc' = "idle"
                /\ result' = [type |-> "ChecksumMismatchError", raisedBy |-> "SRI.check",
                              expected |-> e.expected, actual |-> e.actual]
           ELSE /\ pc' = "written"
                /\ UNCHANGED result
    /\ op' = "check_end"
    /\ UNCHANGED <<system, machine, privileged, dirExists, files, srisum, run,
                   fetched, hc>>

\* chmod(filename, stat.S_IRUSR | stat.S_IXUSR), the last line of download
download_chmod ==
    /\ pc = "written"
    /\ files' = [files EXCEPT ![run.filename] = Chmod(@, {S_IRUSR} \cup {S_IXUSR})]
    /\ pc' = "chmodded"
    /\ op' = "download_chmod"
    /\ UNCHANGED <<system, machine, privileged, dirExists, srisum, run, fetched,
                   result, hc>>

\* srisum.open('w', encoding='utf8')
srisum_open ==
    /\ pc = "chmodded"
    /\ LET fp == OpenW(srisum, privileged)
       IN  /\ srisum' = fp.file
           /\ IF fp.err = ""
              THEN pc' = "srisum_open" /\ UNCHANGED result
              ELSE pc' = "idle" /\ result' = [type |-> fp.err, raisedBy |-> "open"]
    /\ op' = "srisum_open"
    /\ UNCHANGED <<system, machine, privileged, dirExists, files, run, fetched, hc>>

\* stream.write(f'{m.sri}  {filename}\n'), the close of the stream, return
srisum_write ==
    /\ pc = "srisum_open"
    /\ srisum' = Write(srisum, SrisumLine(run.sri, run.filename))
    /\ pc' = "idle"
    /\ result' = [type |-> "return", raisedBy |-> ""]
    /\ op' = "srisum_write"
    /\ UNCHANGED <<system, machine, privileged, dirExists, files, run, fetched, hc>>

\* the process dies inside download or before the sidecar is complete
crash ==
    /\ pc # "idle"
    /\ pc' = "idle"
    /\ result' = [type |-> "crash", raisedBy |-> pc]
    /\ op' = "crash"
    /\ UNCHANGED <<system, machine, privileged, dirExists, files, srisum, run,
                   fetched, hc>>

-----------------------------------------------------------------------------
(* health_check, the operation.                                            *)

health_check ==
    /\ pc = "idle"
    /\ LET r == HealthCheck(srisum, files, privileged)
       IN  /\ hc' = [kind |-> r.kind, exc |-> r.exc, text |-> r.text,
                      again |-> op = "health_check"]
           /\ srisum' = r.srisum
           /\ files' = r.files
    /\ op' = "health_check"
    /\ UNCHANGED <<system, machine, privileged, dirExists, pc, run, fetched, result>>

-----------------------------------------------------------------------------
(* An installation that install_environment returned from is changed       *)
(* behind the program's back, as the test does: chmod(script, S_IRUSR |    *)
(* S_IWUSR), then the script is opened for writing and written.            *)

overwrite(name, data) ==
    /\ pc = "idle"
    /\ result.type = "return"
    /\ files[name].exists
    /\ files' = [files EXCEPT ![name] =
                    Write(OpenW(Chmod(@, {S_IRUSR} \cup {S_IWUSR}), privileged).file, data)]
    /\ op' = "overwrite"
    /\ hc' = NoCheck
    /\ UNCHANGED <<system, machine, privileged, dirExists, srisum, pc, run,
                   fetched, result>>

-----------------------------------------------------------------------------

Init ==
    /\ \E h \in Hosts : system = h[1] /\ machine = h[2]
    /\ privileged \in BOOLEAN
    /\ dirExists = FALSE
    /\ files = [f \in FileNames |-> NoFile]
    /\ srisum = NoFile
    /\ pc = "idle"
    /\ run = NoRun
    /\ fetched = FALSE
    /\ result = NoResult
    /\ hc = NoCheck
    /\ op = "none"

Next ==
    \/ \E deps \in Manifests, body \in Bodies, net \in {"up", "unreachable"} :
          install_environment(deps, body, net)
    \/ \E n \in 1..ChunkSize : check_yield(n)
    \/ check_end
    \/ download_chmod
    \/ srisum_open
    \/ srisum_write
    \/ crash
    \/ health_check
    \/ \E name \in FileNames, data \in Bodies : overwrite(name, data)

Spec == Init /\ [][Next]_vars

-----------------------------------------------------------------------------
(* SRI.check on its own: download after urlopen and filename.open('wb'),   *)
(* for every source and every expected digest of the bounds below.         *)

\* longest source handed to SRI.check
SourceLen == 3

SourceBytes == {7, 8}

Sources == UNION {[1..n -> SourceBytes] : n \in 0..SourceLen}

CheckInit ==
    /\ system = "Linux"
    /\ machine = "x86_64"
    /\ privileged = FALSE
    /\ dirExists = TRUE
    /\ files = [f \in FileNames |->
                   IF f = <<"test.bat">> THEN OpenW(NoFile, FALSE).file ELSE NoFile]
    /\ srisum = NoFile
    /\ pc = "streaming"
    /\ \E io \in Sources, of \in Sources :
          run = [NoRun EXCEPT !.filename = <<"test.bat">>, !.uri = GoodUri,
                              !.sri = SRI(SriOf(of)), !.body = io, !.ws = io]
    /\ fetched = TRUE
    /\ result = [type |-> "running", raisedBy |-> ""]
    /\ hc = NoCheck
    /\ op = "none"

CheckNext ==
    \/ \E n \in 1..ChunkSize : check_yield(n)
    \/ check_end

CheckSpec == CheckInit /\ [][CheckNext]_vars

-----------------------------------------------------------------------------
(* The vocabulary of the properties.                                       *)

\* the host is one that Platform.host() knows
HostKnown == system \in DOMAIN OS /\ machine \in DOMAIN CPU

\* the token of the host, f'{os}/{cpu}'
HostToken == <<OS[system], "/", CPU[machine]>>

\* the tokens made of an os and a cpu of the allow-lists
Tokens == {<<o, "/", c>> : o \in Values(OS), c \in Values(CPU)}

\* line k of a manifest entry
EntryLine(dep, k) == SplitLines(dep)[k]

\* the entry the install in run works from
Chosen == run.additional_dependencies[run.idx]

\* the record of an entry: its descriptor, two spaces, its filename, a line end
RecordOf(dep) == EntryLine(dep, 2) \o <<" ", " ">> \o EntryLine(dep, 4) \o <<"\n">>

\* the base64 digest of bytes, hashed in one piece
Digest(bytes) == b64encode(hasher_digest(hasher_update(hashlib_new, bytes)))

ReadExecuteOnly == {"S_IRUSR", "S_IXUSR"}

-----------------------------------------------------------------------------
(* The claims.                                                             *)

\* C1: an install that fails with a checksum mismatch writes no sidecar, and a
\* health_check run directly after the failed install never returns None
\* (checked for installs into a directory that holds the sidecar and the
\* artifact of an earlier install that returned).
C1_FailedInstallNeverHealthy ==
    [][ /\ (op' = "install_environment" \/ pc = "streaming" => srisum' = srisum)
        /\ (/\ op = "check_end"
            /\ result.type = "ChecksumMismatchError"
            /\ run.completed
            /\ op' = "health_check"
            => hc'.kind # "None") ]_vars

\* C2: when install_environment returns from an install into a directory that
\* held nothing, the file named by the entry holds the bytes the server sent,
\* its mode is exactly read and execute for the owner, the sidecar is the one
\* line '<descriptor>  <filename>' of the entry, and a health_check directly
\* after returns None.
C2_FreshInstall ==
    /\ [](op = "srisum_write" /\ run.fresh =>
            /\ files[EntryLine(Chosen, 4)].data = run.body
            /\ files[EntryLine(Chosen, 4)].mode = ReadExecuteOnly
            /\ srisum.data = RecordOf(Chosen)
            /\ Len(SplitLines(srisum.data)) = 1)
    /\ [][op = "srisum_write" /\ run.fresh /\ op' = "health_check"
            => hc'.kind = "None"]_vars

\* a health_check that returned None directly after a fresh install returned
C2_Witness ==
    /\ op = "health_check"
    /\ ~hc.again
    /\ hc.kind = "None"
    /\ result.type = "return"
    /\ run.fresh
    /\ run.body = shellscript
    /\ files[run.filename].mode = ReadExecuteOnly

\* C3: the entry an install works from is the first of the list whose platform
\* token equals the host's: no earlier entry has that token, and the locator,
\* the descriptor and the filename that are fetched, written to, verified
\* against and recorded are the lines of that entry.
C3_FirstMatchUsed ==
    run.idx # 0 =>
        /\ EntryLine(Chosen, 1) = HostToken
        /\ \A j \in 1..(run.idx - 1) :
              EntryLine(run.additional_dependencies[j], 1) # HostToken
        /\ run.uri = EntryLine(Chosen, 3)
        /\ run.sri.value = EntryLine(Chosen, 2)
        /\ run.filename = EntryLine(Chosen, 4)
        /\ (pc = "streaming" =>
              files[EntryLine(Chosen, 4)].data \o run.ws = run.body)
        /\ (op = "check_end" /\ result.type = "ChecksumMismatchError" =>
              <<"sha256", "-">> \o result.expected = EntryLine(Chosen, 2))
        /\ (op = "srisum_write" => srisum.data = RecordOf(Chosen))

\* an install that returned, from a list with a later entry of the host's token
C3_Witness ==
    /\ op = "srisum_write"
    /\ run.idx = 1
    /\ \E j \in 2..Len(run.additional_dependencies) :
          EntryLine(run.additional_dependencies[j], 1) = HostToken

\* the install step that took deps ended in the lookup error that names the
\* host and carries deps, and neither touched the directory nor called urlopen
LookupFailure(deps) ==
    /\ result'.type = "KeyError"
    /\ result'.host = HostToken
    /\ result'.additional_dependencies = deps
    /\ UNCHANGED fsvars
    /\ ~fetched'

\* C4 as stated: on a host with a token, a list none of whose entries has the
\* host's token as its platform token makes install_environment fail with the
\* lookup error, the file system unchanged and no fetch started.
C4_NoMatchLookupError ==
    [][ /\ op' = "install_environment"
        /\ HostKnown
        /\ \A j \in DOMAIN run'.additional_dependencies :
              EntryLine(run'.additional_dependencies[j], 1) # HostToken
        => LookupFailure(run'.additional_dependencies) ]_vars

\* C4, amended: the same, for lists whose entries all have four lines and a
\* platform token made of an os and a cpu of the allow-lists.
C4_WellFormedNoMatchLookupError ==
    [][ /\ op' = "install_environment"
        /\ HostKnown
        /\ \A j \in DOMAIN run'.additional_dependencies :
              /\ Len(SplitLines(run'.additional_dependencies[j])) = 4
              /\ EntryLine(run'.additional_dependencies[j], 1) \in Tokens
              /\ EntryLine(run'.additional_dependencies[j], 1) # HostToken
        => LookupFailure(run'.additional_dependencies) ]_vars

\* the lookup error on a linux/amd64 host for a list of one windows/amd64 entry
C4_Witness ==
    /\ op = "install_environment"
    /\ HostKnown
    /\ HostToken = <<"linux", "/", "amd64">>
    /\ result.type = "KeyError"
    /\ result.additional_dependencies = <<windows_amd64>>
    /\ ~dirExists

\* C5: an install_environment that fails with a configuration error has done no
\* disk and no network I/O: no directory created, no file opened or written,
\* no fetch started.
C5_ConfigErrorBeforeIO ==
    [][ op' = "install_environment" /\ result'.type = "ValueError"
        => UNCHANGED fsvars /\ ~fetched' ]_vars

\* C6: after an install that returned, once the installed file is overwritten
\* with bytes of another digest than the recorded one, health_check returns the
\* filename, the mismatch text with the recorded digest as expected and the
\* digest of the bytes now in the file as actual, and the reinstall hint.
C6_OverwriteReported ==
    [][ /\ op = "overwrite"
        /\ Digest(files[EntryLine(Chosen, 4)].data)
              # Split1(EntryLine(Chosen, 2), "-")[2]
        /\ op' = "health_check"
        => /\ hc'.kind = "str"
           /\ hc'.text =
                EntryLine(Chosen, 4)
                \o <<" ", "checksum mismatch", ":", "\n">>
                \o <<" ", "-", " ", "expected", ":", " ">>
                \o Split1(EntryLine(Chosen, 2), "-")[2] \o <<"\n">>
                \o <<" ", "-", " ", "actual", " ", " ", ":", " ">>
                \o Digest(files[EntryLine(Chosen, 4)].data) \o <<"\n">>
                \o <<"Please reinstall the Download environment">> ]_vars

\* a health_check that reported the installed file after it was overwritten
C6_Witness ==
    /\ op = "health_check"
    /\ ~hc.again
    /\ hc.kind = "str"
    /\ result.type = "return"
    /\ S_IWUSR \in files[run.filename].mode
    /\ files[run.filename].data # run.body

\* C7: health_check changes neither the artifacts (bytes and modes) nor the
\* sidecar, and a health_check directly after a health_check returns or raises
\* the same.
C7_HealthCheckIdempotent ==
    [][ /\ (op' = "health_check" => UNCHANGED fsvars)
        /\ (op = "health_check" /\ op' = "health_check" =>
              /\ hc'.kind = hc.kind
              /\ hc'.exc = hc.exc
              /\ hc'.text = hc.text) ]_vars

\* a second health_check in a row on a healthy installation
C7_Witness ==
    /\ op = "health_check"
    /\ hc.again
    /\ hc.kind = "None"
    /\ srisum.data # <<>>

\* C8: the chunks SRI.check has yielded, in order, and what is left of the
\* source make up the source; the mismatch error is raised only with the source
\* exhausted and all of it yielded, exactly when the digest of the whole source
\* is not the expected one, with expected the checksum of the descriptor and
\* actual the digest of the source.
C8_CheckPassThrough ==
    /\ pc \in {"streaming", "written"} \/ result.type = "ChecksumMismatchError"
          => files[run.filename].data \o run.ws = run.body
    /\ result.type = "ChecksumMismatchError" =>
          /\ run.ws = <<>>
          /\ Digest(run.body) # Split1(run.sri.value, "-")[2]
          /\ result.expected = Split1(run.sri.value, "-")[2]
          /\ result.actual = Digest(run.body)
    /\ pc = "written" =>
          /\ run.ws = <<>>
          /\ Digest(run.body) = Split1(run.sri.value, "-")[2]

\* the error raised at the end of a source longer than one read
C8_Witness ==
    /\ op = "check_end"
    /\ result.type = "ChecksumMismatchError"
    /\ Len(run.body) > ChunkSize
    /\ files[run.filename].data = run.body

\* C9: the health_check that follows a crash of an install never returns None
\* (checked for installs into a directory that held nothing).
C9_CrashNeverHealthy ==
    [][ op = "crash" /\ run.fresh /\ op' = "health_check"
        => hc'.kind # "None" ]_vars

\* C10: an install into a directory that holds a completed install (sidecar,
\* artifact read-and-execute only), with the network up and the right bytes
\* served, returns and leaves as sidecar the one line of its own entry.
C10_ReinstallCompletes ==
    /\ pc = "idle"
    /\ run.idx # 0
    /\ run.completed
    /\ Digest(run.body) = Split1(run.sri.value, "-")[2]
    /\ result.type # "crash"
    => /\ result.type = "return"
       /\ srisum.data = RecordOf(Chosen)

====
